---- MODULE Spec2Model ----
(***************************************************************************)
(* OmniProx: the fleet lifecycle of the provider classes                   *)
(* (src/omniprox/providers/*.py) as one state machine.                     *)
(*                                                                         *)
(* A behaviour is a sequence of CLI invocations against one provider.      *)
(* What survives an invocation is the provider account (remote) and the    *)
(* local fleet store (store): cloudflare_endpoints.json for Cloudflare,    *)
(* the container_pool field of the profile for Azure.  GCP and Alibaba     *)
(* keep no local fleet; their store stays empty.                           *)
(*                                                                         *)
(* Every remote request is a step whose outcome the environment chooses.   *)
(***************************************************************************)
EXTENDS Naturals, Sequences, FiniteSets

VARIABLES
    provider,       \* which provider class the invocations use
    remote,         \* names of the resources that exist in the account
    store,          \* the persisted fleet: sequence of endpoint names
    storeWritable,  \* whether open(..., 'w') on the store succeeds
    pc,             \* position inside the running command
    arg,            \* argparse namespace of the running invocation
    loc,            \* locals and attributes of the running handler
    hist,           \* observation of the running invocation (not program state)
    test,           \* locals of a running proxytest command
    save,           \* position of a write of the store file in progress
    profile,        \* the section of profiles.ini of this (provider, profile)
    driver,         \* configuration attributes of the constructed provider object
    rot,            \* the RotatingProxy object of the rotation client
    run,            \* locals of execute_all_providers (--all)
    del             \* locals of GCPProvider.delete and the API's remote resources

vars == <<provider, remote, store, storeWritable, pc, arg, loc, hist, test,
          save, profile, driver, rot, run, del>>

(***************************************************************************)
(* Bounds of the model.                                                    *)
(***************************************************************************)
MaxNumber == 2      \* largest --number drawn
NNames == 2         \* distinct random name suffixes drawn
NIdents == 2        \* distinct egress addresses ipinfo.io/ip can answer with
MaxPool == 3        \* largest container pool given to the rotation client
MaxCalls == 7       \* calls of get_next_proxy followed

Providers == {"cloudflare", "azure", "gcp", "alibaba"}

(***************************************************************************)
(* Resource names.  A name is the record of its parts: the literal prefix, *)
(* the instance number written into it (0: none) and the random or hashed  *)
(* part.                                                                   *)
(***************************************************************************)
Name(p, n, s) == [prefix |-> p, i |-> n, sfx |-> s]

\* cloudflare.py: prefixes = ['proxy', 'worker', 'api', 'service', 'app', 'edge']
prefixes == <<"proxy-", "worker-", "api-", "service-", "app-", "edge-">>

\* cloudflare.py: omniprox_prefixes, the tuple given to name.startswith
omniprox_prefixes ==
    {"proxy-", "worker-", "api-", "service-", "app-", "edge-", "omniprox-"}

StartsWithOmniproxPrefix(name) == name.prefix \in omniprox_prefixes

\* _generate_worker_name: f"{prefix}-{timestamp}-{random_suffix}", nothing is
\* checked against names already in use.  The k-th outcome of the draw pairs
\* suffix k with the prefix at position k of the list (cyclically).
GenerateWorkerName ==
    { Name(prefixes[((k - 1) % Len(prefixes)) + 1], 0, k) : k \in 1..NNames }

\* Scripts of the account that this tool did not deploy: one whose name
\* matches no prefix, and one that happens to start with "api-".
ForeignWorkers == { Name("blog-", 0, 0), Name("api-", 0, 0) }

\* azure.py create: container_group_name = f"omniprox-pool-{i}-{suffix}"
ContainerGroupName(n, s) == Name("omniprox-pool-", n, s)

AzureNames == { ContainerGroupName(n, s) : n \in 1..MaxNumber, s \in 1..NNames }

\* Container groups without the created_by=omniprox tag.
ForeignContainers == { Name("web-", 0, 0) }

\* azure.py list/cleanup: group.tags and group.tags.get('created_by') == 'omniprox'
\* create() sets the tag on exactly the groups it names omniprox-pool-*.
TaggedOmniprox(name) == name.prefix = "omniprox-pool-"

\* gcp.py generate_api_id: omniprox-{domain}-{sha256(url)[:8]}[-{instance}]
\* one target URL is modelled, its hash is 1; instance 0 stands for None.
UrlHash == 1

generate_api_id(instance) == Name("omniprox-", instance, UrlHash)

GcpNames == { generate_api_id(n) : n \in 0..MaxNumber }

ForeignApis == { Name("billing-", 0, 0) }

\* gcp.py / alibaba.py filter: 'omniprox' in name.lower()
ContainsOmniprox(name) == name.prefix \in {"omniprox-", "omniprox-group-"}

\* alibaba.py create: group_name = f"omniprox-group-{suffix}"
AlibabaGroups == { Name("omniprox-group-", 0, s) : s \in 1..NNames }

ForeignGroups == { Name("shop-", 0, 0) }

AccountNames(p) ==
    CASE p = "cloudflare" -> GenerateWorkerName \cup ForeignWorkers
      [] p = "azure"      -> AzureNames \cup ForeignContainers
      [] p = "gcp"        -> GcpNames \cup ForeignApis
      [] p = "alibaba"    -> AlibabaGroups \cup ForeignGroups

(***************************************************************************)
(* Sequence helpers.                                                       *)
(***************************************************************************)
Range(s) == { s[k] : k \in 1..Len(s) }

NoDuplicates(s) == \A j, k \in 1..Len(s) : j # k => s[j] # s[k]

SeqsOver(S, n) == UNION { [1..m -> S] : m \in 0..n }

RECURSIVE Filter(_, _)
Filter(s, keep) ==
    IF s = <<>> THEN <<>>
    ELSE IF Head(s) \in keep THEN <<Head(s)>> \o Filter(Tail(s), keep)
    ELSE Filter(Tail(s), keep)

\* Some enumeration of a finite set as a sequence (the order an API lists in).
Orderings(S) == { s \in [1..Cardinality(S) -> S] : Range(s) = S }


(***************************************************************************)
(* The invocation.                                                         *)
(***************************************************************************)
NoName == Name("", 0, 0)        \* an option that was not given (None)

Commands == {"create", "list", "delete", "cleanup"}

TargetURL == "https://target.local"

\* Outcome of init_provider: client set up and credentials accepted, or not.
InitOutcomes == {"ok", "fail"}

\* Outcome of one remote request that changes or reads the account.
\*   ok         the request did what it asks
\*   auth       HTTP 401/403
\*   error      requests.RequestException (raise_for_status, timeout, ...)
\*              or, for the SDK clients, any exception of the call
\*   unexpected an exception that is no RequestException
CallOutcomes == {"ok", "error"}
PutOutcomes == {"ok", "auth", "error", "unexpected"}

LocInit ==
    [ i |-> 0,                  \* loop index
      num_proxies |-> 0,        \* num_proxies / pool_size
      worker_name |-> NoName,   \* name of the instance being created
      created |-> <<>>,         \* created_workers / created_proxies
      failed_count |-> 0,       \* failed_count / len(failed_proxies)
      container_pool |-> <<>>,  \* AzureProvider.container_pool
      endpoints |-> <<>>,       \* endpoints / omniprox_containers / omniprox_apis
      deleted |-> 0,            \* deleted / deleted_count
      failed |-> 0,             \* failed / failed_count of cleanup
      confirm |-> "",           \* answer to the confirmation prompt
      summary |-> FALSE,        \* the summary with the counts was printed
      ret |-> FALSE ]           \* value returned by the handler

HistInit ==
    [ store0 |-> <<>>,          \* store when the invocation started
      remote0 |-> {},           \* account when the invocation started
      made |-> <<>>,            \* instances created remotely, in order
      attempts |-> 0,           \* create requests issued
      networked |-> FALSE,      \* a remote request has been made
      deletes |-> 0,            \* remote delete requests issued
      fault |-> FALSE,          \* some remote request failed
      again |-> FALSE,          \* repeats the successful delete just before it
      answer |-> "",            \* what the operator typed at the prompt, if asked
      killedAt |-> "",          \* where the process was killed
      partial |-> {} ]          \* resources left half provisioned by a create so far

\* Stores the code can have written: Cloudflare writes names that passed the
\* prefix filter or that it generated, never one name twice; Azure writes the
\* pool of one create, whose instance numbers ascend.
PossibleStores(p) ==
    CASE p = "cloudflare" ->
           { s \in SeqsOver({ n \in AccountNames(p) : StartsWithOmniproxPrefix(n) },
                            NNames + 1) : NoDuplicates(s) }
      [] p = "azure" ->
           { s \in SeqsOver(AzureNames, MaxNumber) :
                 \A j, k \in 1..Len(s) : j < k => s[j].i < s[k].i }
      [] OTHER -> { <<>> }

\* proxytest(): test_count = 3, created_proxies = [], unique_ips = set().
\* requests and ok200 observe the probes (the code keeps no such counters);
\* printed holds the three figures of the results summary.
test_count == 3

TestInit ==
    [ pc              |-> "idle",
      i               |-> 0,
      created_proxies |-> <<>>,
      unique_ips      |-> {},
      requests        |-> 0,
      ok200           |-> 0,
      printed         |-> [proxies |-> 0, successful |-> 0, unique |-> 0],
      verdict         |-> "none",
      cleaned         |-> FALSE,
      remote0         |-> {},
      ret             |-> FALSE ]

\* No write of the store file is in progress.
SaveInit == [pc |-> "idle", old |-> <<>>, new |-> <<>>, written |-> 0]

\* A profile section and the attributes a provider object is born with.
NoValue == "none"

ProfileInit == [id |-> "acct1", region |-> "west", use_cli |-> TRUE]

DriverInit == [pc |-> "none", id |-> NoValue, region |-> NoValue,
               use_cli |-> FALSE, override |-> NoValue, loaded |-> ProfileInit]

\* RotatingProxy.__init__: self.pool, self.current_index = 0; calls and proxy
\* observe the calls of get_next_proxy and what the last one returned.
RotInit == [pool |-> <<>>, current_index |-> 0, calls |-> 0, proxy |-> NoName,
            served |-> <<>>]

\* execute_all_providers before its loop: sections are the (provider, profile)
\* sections of profiles.ini (sections0: when the run started), profile is
\* --profile, used observes the providers executed: the section the loop
\* found and the section the provider object was constructed with.
RunInit == [pc |-> "loop", i |-> 1, sections |-> {}, sections0 |-> {},
            profile |-> "default", used |-> <<>>, skipped |-> {},
            successful |-> 0, failed |-> 0, ret |-> NoValue]

\* GCPProvider.delete before it starts: the API of --api_id, the gateways of
\* the project and the API's configs as they exist remotely, and the handler's
\* position; gone_gateways and gone_configs observe what the handler deleted.
DelInit == [pc |-> "idle", api0 |-> TRUE, api |-> TRUE, gateways |-> {},
            configs |-> {}, todo_gateways |-> {}, todo_configs |-> {},
            gone_gateways |-> {}, gone_configs |-> {}, failed |-> FALSE,
            ret |-> NoValue]

Init ==
    /\ provider \in Providers
    /\ remote \in SUBSET AccountNames(provider)
    /\ store \in PossibleStores(provider)
    /\ storeWritable = TRUE
    /\ pc = "idle"
    /\ arg = [command |-> "none", number |-> 1, api_id |-> NoName,
              url |-> "", tty |-> FALSE]
    /\ loc = LocInit
    /\ hist = HistInit
    /\ test = TestInit
    /\ save = SaveInit
    /\ profile = ProfileInit
    /\ driver = DriverInit
    /\ rot = RotInit
    /\ run = RunInit
    /\ del = DelInit

Fixed == <<provider, storeWritable, test, save, profile, driver, rot, run, del>>

\* argparse + BaseOmniProx.__init__: the namespace is read and the profile is
\* loaded; AzureProvider.load_profile reads container_pool from the profile.
ArgsOf(c) ==
    CASE c = "create" ->
           { [command |-> c, number |-> n, api_id |-> NoName, url |-> u, tty |-> FALSE] :
               n \in 0..MaxNumber, u \in {"", TargetURL} }
      [] c = "delete" ->
           { [command |-> c, number |-> 1, api_id |-> a, url |-> "", tty |-> FALSE] :
               a \in AccountNames(provider) \cup {NoName} }
      [] c = "cleanup" ->
           { [command |-> c, number |-> 1, api_id |-> NoName, url |-> "", tty |-> t] :
               t \in BOOLEAN }
      [] OTHER ->
           { [command |-> c, number |-> 1, api_id |-> NoName, url |-> "", tty |-> FALSE] }

load_profile(p) == IF p = "azure" THEN store ELSE <<>>

Start ==
    /\ pc \in {"idle", "done", "killed"}
    /\ \E c \in Commands : \E a \in ArgsOf(c) :
         /\ arg' = a
         /\ hist' = [HistInit EXCEPT
                       !.store0 = store,
                       !.remote0 = remote,
                       !.partial = hist.partial,
                       !.again = /\ pc = "done"
                                 /\ c = "delete" /\ arg.command = "delete"
                                 /\ a.api_id # NoName /\ a.api_id = arg.api_id
                                 /\ loc.ret]
    /\ loc' = [LocInit EXCEPT !.container_pool = load_profile(provider)]
    /\ pc' = "start"
    /\ UNCHANGED <<Fixed, remote, store>>

\* The process is killed (SIGKILL, power loss): nothing more runs, the store
\* and the account stay as they are.
Kill ==
    /\ pc \notin {"idle", "done", "killed"}
    /\ pc' = "killed"
    /\ hist' = [hist EXCEPT !.killedAt = pc]
    /\ UNCHANGED <<Fixed, remote, store, arg, loc>>

\* A handler returns value r.
Return(l, r) == [l EXCEPT !.ret = r]

(***************************************************************************)
(* Cloudflare: the endpoints file.                                         *)
(***************************************************************************)
\* _load_endpoints
LoadEndpoints == store

\* _save_all_endpoints: an IOError is logged and swallowed
SaveAllEndpoints(endpoints) == IF storeWritable THEN endpoints ELSE store

\* _save_endpoint: replace the entry of the same name, else append
SaveEndpointAlwaysAppends(endpoint) ==
    SaveAllEndpoints(Append(LoadEndpoints, endpoint))

SaveEndpoint(endpoint) ==
    LET endpoints == LoadEndpoints
        existing == \E k \in 1..Len(endpoints) : endpoints[k] = endpoint
    IN  SaveAllEndpoints(IF existing THEN endpoints ELSE Append(endpoints, endpoint))

\* _remove_endpoint
RemoveEndpoint(name) ==
    SaveAllEndpoints(Filter(LoadEndpoints, Range(LoadEndpoints) \ {name}))

\* create(): num_proxies clamped to 1..10
BatchLimit == 10

ClampNumber(n) == IF n < 1 THEN 1 ELSE IF n > BatchLimit THEN BatchLimit ELSE n

(***************************************************************************)
(* CloudflareProvider.create                                               *)
(***************************************************************************)
\* return len(created_workers) > 0
CreateResultAllCreated(created_workers) == Len(created_workers) = loc.num_proxies

CreateResult(created_workers) == Len(created_workers) > 0

\* init_provider, the --url check, the clamp and _ensure_subdomain
CloudflareCreateEnter ==
    /\ provider = "cloudflare" /\ arg.command = "create" /\ pc = "start"
    /\ \E init \in InitOutcomes, subdomain \in CallOutcomes :
         IF init = "ok" /\ arg.url # "" /\ subdomain = "ok"
         THEN /\ loc' = [loc EXCEPT !.num_proxies = ClampNumber(arg.number), !.i = 0]
              /\ pc' = "loop"
              /\ hist' = [hist EXCEPT !.networked = TRUE]
         ELSE /\ loc' = Return(loc, FALSE)
              /\ pc' = "done"
              /\ hist' = [hist EXCEPT
                            !.networked = TRUE,
                            !.fault = (init # "ok" \/ (arg.url # "" /\ subdomain # "ok"))]
    /\ UNCHANGED <<Fixed, remote, store, arg>>

\* one pass of "for i in range(num_proxies)" up to the PUT of the script
CloudflareCreatePut ==
    /\ provider = "cloudflare" /\ arg.command = "create" /\ pc = "loop"
    /\ loc.i < loc.num_proxies
    /\ \E worker_name \in GenerateWorkerName, status \in PutOutcomes :
         /\ hist' = [hist EXCEPT
                       !.attempts = @ + 1,
                       !.made = IF status = "ok" THEN Append(@, worker_name) ELSE @,
                       !.fault = @ \/ status # "ok"]
         /\ remote' = IF status = "ok" THEN remote \cup {worker_name} ELSE remote
         /\ CASE status = "ok" ->
                   /\ loc' = [loc EXCEPT !.worker_name = worker_name]
                   /\ pc' = "persist"
              [] status = "auth" ->
                   \* 401 / 403: "if num_proxies == 1: return False" comes first
                   IF loc.num_proxies = 1
                   THEN loc' = Return(loc, FALSE) /\ pc' = "done"
                   ELSE /\ loc' = [loc EXCEPT !.failed_count = @ + 1, !.i = @ + 1]
                        /\ pc' = "loop"
              [] status = "error" ->
                   \* except requests.RequestException: counted, then the same test
                   IF loc.num_proxies = 1
                   THEN /\ loc' = Return([loc EXCEPT !.failed_count = @ + 1], FALSE)
                        /\ pc' = "done"
                   ELSE /\ loc' = [loc EXCEPT !.failed_count = @ + 1, !.i = @ + 1]
                        /\ pc' = "loop"
              [] status = "unexpected" ->
                   \* outer "except Exception": return len(created_workers) > 0
                   /\ loc' = Return(loc, CreateResult(loc.created))
                   /\ pc' = "done"
    /\ UNCHANGED <<Fixed, store, arg>>

\* the rest of the pass: _save_endpoint(endpoint); created_workers.append(...)
CloudflareCreatePersist ==
    /\ provider = "cloudflare" /\ arg.command = "create" /\ pc = "persist"
    /\ store' = SaveEndpoint(loc.worker_name)
    /\ loc' = [loc EXCEPT !.created = Append(@, loc.worker_name), !.i = @ + 1]
    /\ pc' = "loop"
    /\ UNCHANGED <<Fixed, remote, arg, hist>>

\* after the loop: the batch summary (only if num_proxies > 1) and the result
CloudflareCreateFinish ==
    /\ provider = "cloudflare" /\ arg.command = "create" /\ pc = "loop"
    /\ loc.i = loc.num_proxies
    /\ loc' = [Return(loc, CreateResult(loc.created)) EXCEPT
                  !.summary = loc.num_proxies > 1]
    /\ pc' = "done"
    /\ UNCHANGED <<Fixed, remote, store, arg, hist>>

\* Outcome of one DELETE request
\*   ok       HTTP 200, or 404 when the script is not in the account
\*   refused  any other status
\*   error    requests.RequestException
DeleteOutcomes == {"ok", "refused", "error"}

\* sync_endpoints: with a subdomain and an answered listing, the scripts whose
\* name passes the prefix filter overwrite the local file and are returned;
\* otherwise the local file is returned as it is; an exception that is no
\* RequestException is not handled here.  listing is the order in which the
\* API enumerates the scripts.
ListOutcomes == {"ok", "error", "unexpected"}

SyncEndpointsSavesOnFailure(subdomain, get, listing) ==
    IF subdomain = "ok" /\ get = "ok"
    THEN LET remote_workers ==
                 Filter(listing, { n \in Range(listing) : StartsWithOmniproxPrefix(n) })
         IN  [endpoints |-> remote_workers, store |-> SaveAllEndpoints(remote_workers),
              raised |-> FALSE]
    ELSE [endpoints |-> <<>>, store |-> SaveAllEndpoints(<<>>),
          raised |-> subdomain = "ok" /\ get = "unexpected"]

SyncEndpoints(subdomain, get, listing) ==
    IF subdomain = "ok" /\ get = "ok"
    THEN LET remote_workers ==
                 Filter(listing, { n \in Range(listing) : StartsWithOmniproxPrefix(n) })
         IN  [endpoints |-> remote_workers, store |-> SaveAllEndpoints(remote_workers),
              raised |-> FALSE]
    ELSE [endpoints |-> LoadEndpoints, store |-> store,
          raised |-> subdomain = "ok" /\ get = "unexpected"]

CloudflareList ==
    /\ provider = "cloudflare" /\ arg.command = "list" /\ pc = "start"
    /\ \E init \in InitOutcomes, subdomain \in CallOutcomes, get \in ListOutcomes,
          listing \in Orderings(remote) :
         IF init = "ok"
         THEN LET synced == SyncEndpoints(subdomain, get, listing) IN
              /\ store' = synced.store
              /\ loc' = IF synced.raised
                        THEN Return(loc, FALSE)
                        ELSE [Return(loc, TRUE) EXCEPT !.endpoints = synced.endpoints]
              /\ hist' = [hist EXCEPT !.networked = TRUE,
                                      !.fault = subdomain # "ok" \/ get # "ok"]
         ELSE /\ store' = store
              /\ loc' = Return(loc, FALSE)
              /\ hist' = [hist EXCEPT !.networked = TRUE, !.fault = TRUE]
    /\ pc' = "done"
    /\ UNCHANGED <<Fixed, remote, arg>>

CloudflareDelete ==
    /\ provider = "cloudflare" /\ arg.command = "delete" /\ pc = "start"
    /\ \E init \in InitOutcomes, response \in DeleteOutcomes :
         IF init = "ok" /\ arg.api_id # NoName
         THEN /\ hist' = [hist EXCEPT !.networked = TRUE, !.deletes = @ + 1,
                                      !.fault = response # "ok"]
              /\ IF response = "ok"
                 THEN /\ remote' = remote \ {arg.api_id}
                      /\ store' = RemoveEndpoint(arg.api_id)
                      /\ loc' = Return(loc, TRUE)
                 ELSE /\ UNCHANGED <<remote, store>>
                      /\ loc' = Return(loc, FALSE)
         ELSE /\ hist' = [hist EXCEPT !.networked = TRUE, !.fault = init # "ok"]
              /\ loc' = Return(loc, FALSE)
              /\ UNCHANGED <<remote, store>>
    /\ pc' = "done"
    /\ UNCHANGED <<Fixed, arg>>

\* cleanup: if confirm.lower() != 'yes': "Cleanup cancelled", return False
ConfirmedAnyAnswer(confirm) == TRUE

Confirmed(confirm) == confirm = "yes"

\* cleanup, up to the answer to "Are you sure? (yes/no)": without a terminal
\* on stdin the answer is taken to be yes.
CloudflareCleanupConfirm ==
    /\ provider = "cloudflare" /\ arg.command = "cleanup" /\ pc = "start"
    /\ \E init \in InitOutcomes, answer \in {"yes", "no"} :
         LET confirm == IF ~arg.tty THEN "yes" ELSE answer IN
         IF init # "ok"
         THEN /\ loc' = Return(loc, FALSE)
              /\ pc' = "done"
              /\ hist' = [hist EXCEPT !.networked = TRUE, !.fault = TRUE]
         ELSE /\ hist' = [hist EXCEPT !.networked = TRUE,
                                      !.answer = IF arg.tty THEN answer ELSE ""]
              /\ IF ~Confirmed(confirm)
                 THEN /\ loc' = [Return(loc, FALSE) EXCEPT !.confirm = confirm]
                      /\ pc' = "done"
                 ELSE /\ loc' = [loc EXCEPT !.confirm = confirm]
                      /\ pc' = "sync"
    /\ UNCHANGED <<Fixed, remote, store, arg>>

\* endpoints = self.sync_endpoints(); nothing found returns True
CloudflareCleanupSync ==
    /\ provider = "cloudflare" /\ arg.command = "cleanup" /\ pc = "sync"
    /\ \E subdomain \in CallOutcomes, get \in ListOutcomes, listing \in Orderings(remote) :
         LET synced == SyncEndpoints(subdomain, get, listing) IN
         /\ store' = synced.store
         /\ hist' = [hist EXCEPT !.fault = subdomain # "ok" \/ get # "ok"]
         /\ IF synced.raised
            THEN /\ loc' = Return(loc, FALSE)
                 /\ pc' = "done"
            ELSE IF synced.endpoints = <<>>
            THEN /\ loc' = Return(loc, TRUE)
                 /\ pc' = "done"
            ELSE /\ loc' = [loc EXCEPT !.endpoints = synced.endpoints, !.i = 0]
                 /\ pc' = "delete"
    /\ UNCHANGED <<Fixed, remote, arg>>

\* one pass of "for endpoint in endpoints"
CloudflareCleanupDelete ==
    /\ provider = "cloudflare" /\ arg.command = "cleanup" /\ pc = "delete"
    /\ loc.i < Len(loc.endpoints)
    /\ LET name == loc.endpoints[loc.i + 1] IN
       IF StartsWithOmniproxPrefix(name)
       THEN \E response \in DeleteOutcomes :
              /\ hist' = [hist EXCEPT !.deletes = @ + 1,
                                      !.fault = @ \/ response # "ok"]
              /\ remote' = IF response = "ok" THEN remote \ {name} ELSE remote
              /\ loc' = IF response = "ok"
                        THEN [loc EXCEPT !.deleted = @ + 1, !.i = @ + 1]
                        ELSE [loc EXCEPT !.failed = @ + 1, !.i = @ + 1]
       ELSE /\ loc' = [loc EXCEPT !.i = @ + 1]
            /\ UNCHANGED <<remote, hist>>
    /\ pc' = "delete"
    /\ UNCHANGED <<Fixed, store, arg>>

\* after the loop: the local file is unlinked
CloudflareCleanupFinish ==
    /\ provider = "cloudflare" /\ arg.command = "cleanup" /\ pc = "delete"
    /\ loc.i = Len(loc.endpoints)
    /\ store' = IF storeWritable THEN <<>> ELSE store
    /\ loc' = [Return(loc, storeWritable \/ store = <<>>) EXCEPT !.summary = TRUE]
    /\ pc' = "done"
    /\ UNCHANGED <<Fixed, remote, arg, hist>>

(***************************************************************************)
(* Azure: the pool in the profile.                                         *)
(***************************************************************************)
\* Outcome of begin_create_or_update(...).result(timeout=60)
\*   ok     deployed, ip_address set
\*   noip   deployed, result.ip_address empty
\*   error  any exception
DeployOutcomes == {"ok", "noip", "error"}

\* save_pool_config: writes container_pool into the profile file; open() is
\* not guarded, so a failing write raises.
SavePoolConfig(container_pool) == IF storeWritable THEN container_pool ELSE store

\* init_provider, the --url check, the resource group, container_pool = []
AzureCreateEnter ==
    /\ provider = "azure" /\ arg.command = "create" /\ pc = "start"
    /\ \E init \in InitOutcomes, rg \in CallOutcomes :
         IF init = "ok" /\ arg.url # "" /\ rg = "ok"
         THEN /\ loc' = [loc EXCEPT !.num_proxies = arg.number, !.i = 1,
                                    !.container_pool = <<>>]
              /\ pc' = "loop"
              /\ hist' = [hist EXCEPT !.networked = TRUE]
         ELSE /\ loc' = Return(loc, FALSE)
              /\ pc' = "done"
              /\ hist' = [hist EXCEPT
                            !.networked = TRUE,
                            !.fault = (init # "ok" \/ (arg.url # "" /\ rg # "ok"))]
    /\ UNCHANGED <<Fixed, remote, store, arg>>

\* one pass of "for i in range(1, self.pool_size + 1)"
AzureCreateDeploy ==
    /\ provider = "azure" /\ arg.command = "create" /\ pc = "loop"
    /\ loc.i <= loc.num_proxies
    /\ \E suffix \in 1..NNames, result \in DeployOutcomes :
         LET container_group_name == ContainerGroupName(loc.i, suffix) IN
         /\ hist' = [hist EXCEPT
                       !.attempts = @ + 1,
                       !.made = IF result # "error"
                                THEN Append(@, container_group_name) ELSE @,
                       !.fault = @ \/ result = "error"]
         /\ remote' = IF result # "error"
                      THEN remote \cup {container_group_name} ELSE remote
         /\ loc' = IF result = "ok"
                   THEN [loc EXCEPT
                           !.container_pool = Append(@, container_group_name),
                           !.created = Append(@, container_group_name),
                           !.i = @ + 1]
                   ELSE [loc EXCEPT !.i = @ + 1]
    /\ pc' = "loop"
    /\ UNCHANGED <<Fixed, store, arg>>

\* after the loop: save_pool_config(), the statistics, the result
AzureCreateFinish ==
    /\ provider = "azure" /\ arg.command = "create" /\ pc = "loop"
    /\ loc.i > loc.num_proxies
    /\ store' = SavePoolConfig(loc.container_pool)
    /\ loc' = IF storeWritable
              THEN [Return(loc, loc.container_pool # <<>>) EXCEPT
                      !.summary = TRUE,
                      !.failed_count = loc.num_proxies - Len(loc.created)]
              ELSE Return(loc, FALSE)
    /\ pc' = "done"
    /\ UNCHANGED <<Fixed, remote, arg, hist>>

\* list: the tagged groups of the resource group are printed; the pool in
\* the profile is neither read against them nor written.
AzureList ==
    /\ provider = "azure" /\ arg.command = "list" /\ pc = "start"
    /\ \E init \in InitOutcomes, listed \in CallOutcomes :
         /\ loc' = Return(loc, init = "ok" /\ listed = "ok")
         /\ hist' = [hist EXCEPT !.networked = TRUE,
                                 !.fault = init # "ok" \/ listed # "ok"]
    /\ pc' = "done"
    /\ UNCHANGED <<Fixed, remote, store, arg>>

\* delete --api-id X: the group named X is looked up in the listing and
\* deleted; a name that is not listed is "Container not found".
AzureDeleteOne ==
    /\ provider = "azure" /\ arg.command = "delete" /\ pc = "start"
    /\ arg.api_id # NoName
    /\ \E init \in InitOutcomes, listed \in CallOutcomes, deletion \in CallOutcomes :
         IF init = "ok" /\ listed = "ok" /\ arg.api_id \in remote
         THEN /\ hist' = [hist EXCEPT !.networked = TRUE, !.deletes = @ + 1,
                                      !.fault = deletion # "ok"]
              /\ remote' = IF deletion = "ok" THEN remote \ {arg.api_id} ELSE remote
              /\ loc' = Return(loc, deletion = "ok")
         ELSE /\ hist' = [hist EXCEPT !.networked = TRUE,
                                      !.fault = init # "ok" \/ listed # "ok"]
              /\ remote' = remote
              /\ loc' = Return(loc, FALSE)
    /\ pc' = "done"
    /\ UNCHANGED <<Fixed, store, arg>>

\* delete without --api-id: every group of the configured pool is deleted
\* (failures are printed), then the pool is emptied and saved.  gone is the
\* set of groups whose deletion went through.
AzureDeletePool ==
    /\ provider = "azure" /\ arg.command = "delete" /\ pc = "start"
    /\ arg.api_id = NoName
    /\ \E init \in InitOutcomes :
         IF init = "ok" /\ loc.container_pool # <<>>
         THEN \E gone \in SUBSET Range(loc.container_pool) :
                /\ hist' = [hist EXCEPT !.networked = TRUE,
                                        !.deletes = @ + Len(loc.container_pool),
                                        !.fault = gone # Range(loc.container_pool)]
                /\ remote' = remote \ gone
                /\ store' = SavePoolConfig(<<>>)
                /\ loc' = [Return(loc, storeWritable) EXCEPT !.container_pool = <<>>]
         ELSE /\ hist' = [hist EXCEPT !.networked = TRUE, !.fault = init # "ok"]
              /\ loc' = Return(loc, FALSE)
              /\ UNCHANGED <<remote, store>>
    /\ pc' = "done"
    /\ UNCHANGED <<Fixed, arg>>

\* confirm_action(prompt): asks the operator; without a terminal the answer
\* is taken to be yes.
confirm_action(tty) == IF tty THEN {"yes", "no"} ELSE {"yes"}

\* cleanup, up to the listing of the tagged groups; none found returns True
AzureCleanupFind ==
    /\ provider = "azure" /\ arg.command = "cleanup" /\ pc = "start"
    /\ \E init \in InitOutcomes, listed \in CallOutcomes,
          omniprox_containers \in Orderings({ n \in remote : TaggedOmniprox(n) }) :
         /\ hist' = [hist EXCEPT !.networked = TRUE,
                                 !.fault = init # "ok" \/ listed # "ok"]
         /\ IF init # "ok" \/ listed # "ok"
            THEN /\ loc' = Return(loc, FALSE)
                 /\ pc' = "done"
            ELSE IF omniprox_containers = <<>>
            THEN /\ loc' = Return(loc, TRUE)
                 /\ pc' = "done"
            ELSE /\ loc' = [loc EXCEPT !.endpoints = omniprox_containers, !.i = 0]
                 /\ pc' = "confirm"
    /\ UNCHANGED <<Fixed, remote, store, arg>>

AzureCleanupConfirm ==
    /\ provider = "azure" /\ arg.command = "cleanup" /\ pc = "confirm"
    /\ \E confirm \in confirm_action(arg.tty) :
         /\ hist' = [hist EXCEPT !.answer = IF arg.tty THEN confirm ELSE ""]
         /\ IF confirm # "yes"
            THEN /\ loc' = [Return(loc, FALSE) EXCEPT !.confirm = confirm]
                 /\ pc' = "done"
            ELSE /\ loc' = [loc EXCEPT !.confirm = confirm]
                 /\ pc' = "delete"
    /\ UNCHANGED <<Fixed, remote, store, arg>>

\* one pass of "for group in omniprox_containers"; only deleted is counted
AzureCleanupDelete ==
    /\ provider = "azure" /\ arg.command = "cleanup" /\ pc = "delete"
    /\ loc.i < Len(loc.endpoints)
    /\ \E deletion \in CallOutcomes :
         LET name == loc.endpoints[loc.i + 1] IN
         /\ hist' = [hist EXCEPT !.deletes = @ + 1, !.fault = @ \/ deletion # "ok"]
         /\ remote' = IF deletion = "ok" THEN remote \ {name} ELSE remote
         /\ loc' = IF deletion = "ok"
                   THEN [loc EXCEPT !.deleted = @ + 1, !.i = @ + 1]
                   ELSE [loc EXCEPT !.i = @ + 1]
    /\ pc' = "delete"
    /\ UNCHANGED <<Fixed, store, arg>>

\* after the loop: self.container_pool = []; self.save_pool_config()
AzureCleanupFinish ==
    /\ provider = "azure" /\ arg.command = "cleanup" /\ pc = "delete"
    /\ loc.i = Len(loc.endpoints)
    /\ store' = SavePoolConfig(<<>>)
    /\ loc' = [Return(loc, storeWritable) EXCEPT !.container_pool = <<>>,
                                                  !.summary = storeWritable]
    /\ pc' = "done"
    /\ UNCHANGED <<Fixed, remote, arg, hist>>

(***************************************************************************)
(* GCP: no local record; an API is named after the target URL.             *)
(***************************************************************************)
\* Outcome of _create_api_with_id for an id that is not in the project
\*   ok       API, config and gateway created, the gateway URL is returned
\*   partial  the API was created, a later step raised: None is returned
\*   error    nothing was created: None is returned
CreateApiOutcomes == {"ok", "partial", "error"}

GcpCreateEnter ==
    /\ provider = "gcp" /\ arg.command = "create" /\ pc = "start"
    /\ \E init \in InitOutcomes :
         IF init = "ok" /\ arg.url # ""
         THEN /\ loc' = [loc EXCEPT !.num_proxies = arg.number, !.i = 0]
              /\ pc' = "loop"
              /\ hist' = [hist EXCEPT !.networked = TRUE]
         ELSE /\ loc' = Return(loc, FALSE)
              /\ pc' = "done"
              /\ hist' = [hist EXCEPT !.networked = TRUE, !.fault = init # "ok"]
    /\ UNCHANGED <<Fixed, remote, store, arg>>

\* one pass of "for i in range(num_proxies)"; an API that already exists is
\* returned as the result of the creation.
GcpCreateApi ==
    /\ provider = "gcp" /\ arg.command = "create" /\ pc = "loop"
    /\ loc.i < loc.num_proxies
    /\ LET api_id == generate_api_id(IF loc.num_proxies > 1 THEN loc.i + 1 ELSE 0) IN
       IF api_id \in remote
       THEN \E existing \in CallOutcomes :
              /\ hist' = [hist EXCEPT !.attempts = @ + 1,
                                      !.fault = @ \/ existing # "ok"]
              /\ remote' = remote
              /\ loc' = IF existing = "ok"
                        THEN [loc EXCEPT !.created = Append(@, api_id), !.i = @ + 1]
                        ELSE [loc EXCEPT !.failed_count = @ + 1, !.i = @ + 1]
       ELSE \E result \in CreateApiOutcomes :
              /\ hist' = [hist EXCEPT !.attempts = @ + 1,
                                      !.made = IF result = "ok" THEN Append(@, api_id) ELSE @,
                                      !.fault = @ \/ result # "ok",
                                      !.partial = IF result = "partial"
                                                  THEN @ \cup {api_id}
                                                  ELSE @ \ {api_id}]
              /\ remote' = IF result = "error" THEN remote ELSE remote \cup {api_id}
              /\ loc' = IF result = "ok"
                        THEN [loc EXCEPT !.created = Append(@, api_id), !.i = @ + 1]
                        ELSE [loc EXCEPT !.failed_count = @ + 1, !.i = @ + 1]
    /\ pc' = "loop"
    /\ UNCHANGED <<Fixed, store, arg>>

GcpCreateFinish ==
    /\ provider = "gcp" /\ arg.command = "create" /\ pc = "loop"
    /\ loc.i >= loc.num_proxies
    /\ loc' = [Return(loc, Len(loc.created) > 0) EXCEPT !.summary = TRUE]
    /\ pc' = "done"
    /\ UNCHANGED <<Fixed, remote, store, arg, hist>>

GcpList ==
    /\ provider = "gcp" /\ arg.command = "list" /\ pc = "start"
    /\ \E init \in InitOutcomes, listed \in CallOutcomes :
         /\ loc' = Return(loc, init = "ok" /\ listed = "ok")
         /\ hist' = [hist EXCEPT !.networked = TRUE,
                                 !.fault = init # "ok" \/ listed # "ok"]
    /\ pc' = "done"
    /\ UNCHANGED <<Fixed, remote, store, arg>>

\* delete: gateways, configs, then the API; any exception, the NotFound of an
\* API that does not exist included, returns False.
GcpDelete ==
    /\ provider = "gcp" /\ arg.command = "delete" /\ pc = "start"
    /\ \E init \in InitOutcomes, deletion \in CallOutcomes :
         IF init = "ok" /\ arg.api_id # NoName
         THEN /\ hist' = [hist EXCEPT !.networked = TRUE, !.deletes = @ + 1,
                                      !.fault = deletion # "ok"]
              /\ IF arg.api_id \in remote /\ deletion = "ok"
                 THEN /\ remote' = remote \ {arg.api_id}
                      /\ loc' = Return(loc, TRUE)
                 ELSE /\ remote' = remote
                      /\ loc' = Return(loc, FALSE)
         ELSE /\ hist' = [hist EXCEPT !.networked = TRUE, !.fault = init # "ok"]
              /\ remote' = remote
              /\ loc' = Return(loc, FALSE)
    /\ pc' = "done"
    /\ UNCHANGED <<Fixed, store, arg>>

GcpCleanupFind ==
    /\ provider = "gcp" /\ arg.command = "cleanup" /\ pc = "start"
    /\ \E init \in InitOutcomes, listed \in CallOutcomes,
          omniprox_apis \in Orderings({ n \in remote : ContainsOmniprox(n) }) :
         /\ hist' = [hist EXCEPT !.networked = TRUE,
                                 !.fault = init # "ok" \/ listed # "ok"]
         /\ IF init # "ok" \/ listed # "ok"
            THEN /\ loc' = Return(loc, FALSE)
                 /\ pc' = "done"
            ELSE IF omniprox_apis = <<>>
            THEN /\ loc' = Return(loc, TRUE)
                 /\ pc' = "done"
            ELSE /\ loc' = [loc EXCEPT !.endpoints = omniprox_apis, !.i = 0]
                 /\ pc' = "confirm"
    /\ UNCHANGED <<Fixed, remote, store, arg>>

GcpCleanupConfirm ==
    /\ provider = "gcp" /\ arg.command = "cleanup" /\ pc = "confirm"
    /\ \E confirm \in confirm_action(arg.tty) :
         /\ hist' = [hist EXCEPT !.answer = IF arg.tty THEN confirm ELSE ""]
         /\ IF confirm # "yes"
            THEN /\ loc' = [Return(loc, FALSE) EXCEPT !.confirm = confirm]
                 /\ pc' = "done"
            ELSE /\ loc' = [loc EXCEPT !.confirm = confirm]
                 /\ pc' = "delete"
    /\ UNCHANGED <<Fixed, remote, store, arg>>

\* Outcome of _delete_api_with_gcloud
\*   ok       the first gcloud delete went through: True
\*   retried  it failed and was run again with check=False: True, whether
\*            or not the API is gone
\*   error    timeout or another exception: False
GcloudDeleteOutcomes == {"ok", "retried", "error"}

GcpCleanupDelete ==
    /\ provider = "gcp" /\ arg.command = "cleanup" /\ pc = "delete"
    /\ loc.i < Len(loc.endpoints)
    /\ \E success \in GcloudDeleteOutcomes, gone \in BOOLEAN :
         LET api_id == loc.endpoints[loc.i + 1] IN
         /\ success = "ok" => gone
         /\ success = "error" => ~gone
         /\ hist' = [hist EXCEPT !.deletes = @ + 1, !.fault = @ \/ success # "ok"]
         /\ remote' = IF gone THEN remote \ {api_id} ELSE remote
         /\ loc' = IF success # "error"
                   THEN [loc EXCEPT !.deleted = @ + 1, !.i = @ + 1]
                   ELSE [loc EXCEPT !.failed = @ + 1, !.i = @ + 1]
    /\ pc' = "delete"
    /\ UNCHANGED <<Fixed, store, arg>>

GcpCleanupFinish ==
    /\ provider = "gcp" /\ arg.command = "cleanup" /\ pc = "delete"
    /\ loc.i = Len(loc.endpoints)
    /\ loc' = [Return(loc, TRUE) EXCEPT !.summary = TRUE]
    /\ pc' = "done"
    /\ UNCHANGED <<Fixed, remote, store, arg, hist>>

(***************************************************************************)
(* Alibaba: no local record; an endpoint is an API group with its API.     *)
(***************************************************************************)
\* create: require_url() comes first, then init_provider; group, API and
\* deployment are created in turn, any exception returns False.
AlibabaCreate ==
    /\ provider = "alibaba" /\ arg.command = "create" /\ pc = "start"
    /\ IF arg.url = ""
       THEN /\ loc' = Return(loc, FALSE)
            /\ UNCHANGED <<remote, hist>>
       ELSE \E init \in InitOutcomes, result \in CreateApiOutcomes,
               group_name \in AlibabaGroups :
              IF init # "ok"
              THEN /\ loc' = Return(loc, FALSE)
                   /\ remote' = remote
                   /\ hist' = [hist EXCEPT !.networked = TRUE, !.fault = TRUE]
              ELSE /\ loc' = IF result = "ok"
                             THEN [Return(loc, TRUE) EXCEPT !.created = <<group_name>>]
                             ELSE Return(loc, FALSE)
                   /\ remote' = IF result = "error" THEN remote
                                ELSE remote \cup {group_name}
                   /\ hist' = [hist EXCEPT
                                 !.networked = TRUE, !.attempts = 1,
                                 !.made = IF result = "ok" THEN <<group_name>> ELSE @,
                                 !.fault = result # "ok",
                                 !.partial = IF result = "partial"
                                             THEN @ \cup {group_name}
                                             ELSE IF result = "ok"
                                             THEN @ \ {group_name} ELSE @]
    /\ pc' = "done"
    /\ UNCHANGED <<Fixed, store, arg>>

AlibabaList ==
    /\ provider = "alibaba" /\ arg.command = "list" /\ pc = "start"
    /\ \E init \in InitOutcomes, listed \in CallOutcomes :
         /\ loc' = Return(loc, init = "ok" /\ listed = "ok")
         /\ hist' = [hist EXCEPT !.networked = TRUE,
                                 !.fault = init # "ok" \/ listed # "ok"]
    /\ pc' = "done"
    /\ UNCHANGED <<Fixed, remote, store, arg>>

\* Outcome of the deletion of one endpoint
\*   ok     the API and its group are deleted
\*   kept   the API is deleted, the deletion of the group raised (swallowed)
\*   error  describing or deleting the API raised
GroupDeleteOutcomes == {"ok", "kept", "error"}

AlibabaDelete ==
    /\ provider = "alibaba" /\ arg.command = "delete" /\ pc = "start"
    /\ \E init \in InitOutcomes, deletion \in GroupDeleteOutcomes :
         IF init = "ok" /\ arg.api_id \in remote /\ deletion # "error"
         THEN /\ hist' = [hist EXCEPT !.networked = TRUE, !.deletes = @ + 1,
                                      !.fault = deletion # "ok"]
              /\ remote' = IF deletion = "ok" THEN remote \ {arg.api_id} ELSE remote
              /\ loc' = Return(loc, TRUE)
         ELSE /\ hist' = [hist EXCEPT !.networked = TRUE,
                                      !.fault = init # "ok" \/ deletion = "error"]
              /\ remote' = remote
              /\ loc' = Return(loc, FALSE)
    /\ pc' = "done"
    /\ UNCHANGED <<Fixed, store, arg>>

\* cleanup, up to the answer to "Delete all OmniProx API Gateways? (yes/no)"
AlibabaCleanupFind ==
    /\ provider = "alibaba" /\ arg.command = "cleanup" /\ pc = "start"
    /\ \E init \in InitOutcomes, listed \in CallOutcomes, answer \in {"yes", "no"},
          omniprox_groups \in Orderings({ n \in remote : ContainsOmniprox(n) }) :
         LET confirm == IF ~arg.tty THEN "yes" ELSE answer
             asked == init = "ok" /\ listed = "ok" /\ omniprox_groups # <<>> /\ arg.tty
         IN
         /\ hist' = [hist EXCEPT !.networked = TRUE,
                                 !.fault = init # "ok" \/ listed # "ok",
                                 !.answer = IF asked THEN answer ELSE ""]
         /\ IF init # "ok" \/ listed # "ok"
            THEN /\ loc' = Return(loc, FALSE)
                 /\ pc' = "done"
            ELSE IF omniprox_groups = <<>>
            THEN /\ loc' = Return(loc, TRUE)
                 /\ pc' = "done"
            ELSE IF confirm # "yes"
            THEN /\ loc' = [Return(loc, FALSE) EXCEPT !.endpoints = omniprox_groups,
                                                      !.confirm = confirm]
                 /\ pc' = "done"
            ELSE /\ loc' = [loc EXCEPT !.endpoints = omniprox_groups, !.i = 0,
                                       !.confirm = confirm]
                 /\ pc' = "delete"
    /\ UNCHANGED <<Fixed, remote, store, arg>>

\* one pass of "for group in omniprox_groups": describe_apis_with_options is
\* not guarded, its exception leaves the loop through the outer handler; the
\* deletions of the APIs and of the group are guarded and not counted.
AlibabaCleanupGroup ==
    /\ provider = "alibaba" /\ arg.command = "cleanup" /\ pc = "delete"
    /\ loc.i < Len(loc.endpoints)
    /\ \E described \in CallOutcomes, deletion \in {"ok", "kept"} :
         LET group == loc.endpoints[loc.i + 1] IN
         IF described # "ok"
         THEN /\ hist' = [hist EXCEPT !.fault = TRUE]
              /\ remote' = remote
              /\ loc' = Return(loc, FALSE)
              /\ pc' = "done"
         ELSE /\ hist' = [hist EXCEPT !.deletes = @ + 1,
                                      !.fault = @ \/ deletion # "ok"]
              /\ remote' = IF deletion = "ok" THEN remote \ {group} ELSE remote
              /\ loc' = [loc EXCEPT !.i = @ + 1]
              /\ pc' = "delete"
    /\ UNCHANGED <<Fixed, store, arg>>

AlibabaCleanupFinish ==
    /\ provider = "alibaba" /\ arg.command = "cleanup" /\ pc = "delete"
    /\ loc.i = Len(loc.endpoints)
    /\ loc' = Return(loc, TRUE)
    /\ pc' = "done"
    /\ UNCHANGED <<Fixed, remote, store, arg, hist>>

Next ==
    \/ Start
    \/ Kill
    \/ CloudflareCreateEnter
    \/ CloudflareCreatePut
    \/ CloudflareCreatePersist
    \/ CloudflareCreateFinish
    \/ CloudflareList
    \/ CloudflareDelete
    \/ CloudflareCleanupConfirm
    \/ CloudflareCleanupSync
    \/ CloudflareCleanupDelete
    \/ CloudflareCleanupFinish
    \/ AzureCreateEnter
    \/ AzureCreateDeploy
    \/ AzureCreateFinish
    \/ AzureList
    \/ AzureDeleteOne
    \/ AzureDeletePool
    \/ AzureCleanupFind
    \/ AzureCleanupConfirm
    \/ AzureCleanupDelete
    \/ AzureCleanupFinish
    \/ GcpCreateEnter
    \/ GcpCreateApi
    \/ GcpCreateFinish
    \/ GcpList
    \/ GcpDelete
    \/ GcpCleanupFind
    \/ GcpCleanupConfirm
    \/ GcpCleanupDelete
    \/ GcpCleanupFinish
    \/ AlibabaCreate
    \/ AlibabaList
    \/ AlibabaDelete
    \/ AlibabaCleanupFind
    \/ AlibabaCleanupGroup
    \/ AlibabaCleanupFinish

Spec == Init /\ [][Next]_vars

(***************************************************************************)
(* Properties.                                                             *)
(***************************************************************************)
\* The providers that keep a local record of the fleet: the endpoints file
\* of Cloudflare, the container_pool of the Azure profile.
KeepsFleetStore == provider \in {"cloudflare", "azure"}

\* What each provider's listing takes for an endpoint of this tool.
ToolOwned(n) ==
    CASE provider = "cloudflare" -> StartsWithOmniproxPrefix(n)
      [] provider = "azure"      -> TaggedOmniprox(n)
      [] OTHER                   -> ContainsOmniprox(n)

CreateDone == pc = "done" /\ arg.command = "create"

\* C1: a batch create that started from an empty fleet store and is killed
\* after its k-th successful creation (k < N, at the head of the loop, before
\* the next creation) leaves a store that reloads as exactly the k endpoints
\* created so far.
C1_KilledBatchIsPersisted ==
    ( /\ pc = "killed" /\ hist.killedAt = "loop" /\ arg.command = "create"
      /\ KeepsFleetStore
      /\ hist.store0 = <<>>
      /\ Len(loc.created) < loc.num_proxies
      /\ NoDuplicates(loc.created) )
    => store = loc.created

\* C2: in a batch create of N > 1 no failed attempt ends the batch: all N
\* instances are attempted, and a fleet store that was empty holds at the end
\* exactly the created endpoints in request order.
C2_BatchNeverAborted ==
    (CreateDone /\ loc.num_proxies > 1)
    => /\ hist.attempts = loc.num_proxies
       /\ (KeepsFleetStore /\ hist.store0 = <<>> /\ NoDuplicates(loc.created))
            => store = loc.created

\* The terminal outcome of a batch, from the number of successful creations.
Outcome ==
    IF Len(loc.created) = loc.num_proxies THEN "Succeeded"
    ELSE IF Len(loc.created) > 0 THEN "PartialFailure"
    ELSE "Failed"

C4_ReportAddsUp ==
    (CreateDone /\ loc.num_proxies > 1)
    => Len(loc.created) + loc.failed_count = loc.num_proxies

\* C5: after a list that succeeded and whose remote requests were all
\* answered, the persisted fleet is the set of tool-owned endpoints of the
\* account.
C5_ListReconcilesStore ==
    ( /\ pc = "done" /\ arg.command = "list" /\ loc.ret
      /\ ~hist.fault /\ KeepsFleetStore )
    => Range(store) = { n \in remote : ToolOwned(n) }

DeleteOneDone == pc = "done" /\ arg.command = "delete" /\ arg.api_id # NoName

\* C6: delete-one of an id whose resource is already gone, or of the id that
\* the delete just before it removed, returns success whenever its remote
\* requests are answered.
C6_DeleteOneIdempotent ==
    ( /\ DeleteOneDone /\ ~hist.fault
      /\ (hist.again \/ arg.api_id \notin hist.remote0) )
    => loc.ret

\* C7: after delete-one of X returned success the persisted fleet is the one
\* from before without X: no entry X, every other entry kept, in order.
C7_DeleteOneRemovesOnlyX ==
    (DeleteOneDone /\ loc.ret /\ KeepsFleetStore)
    => store = Filter(hist.store0, Range(hist.store0) \ {arg.api_id})

\* Confirmation has been obtained: stdin is no terminal (auto-confirmation),
\* or the operator answered yes.
ConfirmationObtained == ~arg.tty \/ hist.answer = "yes"

\* C8: in cleanup no delete request is issued and no resource leaves the
\* account unless confirmation has been obtained; once the operator has
\* declined, no delete request was issued and the account and the persisted
\* fleet are as they were when cleanup started.
C8_NoDeleteBeforeConfirmation ==
    arg.command = "cleanup"
    => /\ (hist.deletes > 0 \/ remote # hist.remote0) => ConfirmationObtained
       /\ hist.answer = "no"
            => /\ hist.deletes = 0
               /\ remote = hist.remote0
               /\ store = hist.store0

\* C8 witness: the operator declined a cleanup that had endpoints to delete
\* and a persisted fleet to clear.
C8_DeclinedCleanup ==
    /\ pc = "done" /\ arg.command = "cleanup"
    /\ hist.answer = "no"
    /\ { n \in remote : ToolOwned(n) } # {}
    /\ store # <<>>

\* C9: after a cleanup that was confirmed (answered yes, or stdin is not a
\* terminal) and returned success, the persisted fleet is empty.
C9_ConfirmedCleanupEmptiesStore ==
    ( /\ pc = "done" /\ arg.command = "cleanup" /\ loc.ret
      /\ (loc.confirm = "yes" \/ ~arg.tty) )
    => store = <<>>

\* C10: a confirmed cleanup that found endpoints has, when it ends, issued a
\* delete for every tool-owned endpoint it found, and where it reports both
\* counts they satisfy deleted + failed = attempted.
C10_CleanupAttemptsEverything ==
    ( /\ pc = "done" /\ arg.command = "cleanup"
      /\ loc.confirm = "yes" /\ loc.endpoints # <<>> )
    => /\ hist.deletes =
            Cardinality({ k \in 1..Len(loc.endpoints) : ToolOwned(loc.endpoints[k]) })
       /\ provider \in {"cloudflare", "gcp"}
            => loc.deleted + loc.failed = hist.deletes


(***************************************************************************)
(* The proxytest command (BaseOmniProx.proxytest, AzureProvider.proxytest) *)
(***************************************************************************)
Invocation == <<pc, arg, loc, hist, save, profile, driver, rot, run, del>>

Identifiers == 1..NIdents

\* requests.get(proxy_url, timeout=10): a 200 with an address in the body,
\* another status, or an exception (status 0)
ProbeOutcomes ==
    { [status |-> 200, ip |-> k] : k \in Identifiers }
        \cup { [status |-> 500, ip |-> 0], [status |-> 0, ip |-> 0] }

\* The names a test proxy can get: Cloudflare goes through create() with
\* number = 1, GCP names omniprox-test-{time}-{rand}, Alibaba calls create().
TestProxies(p) ==
    CASE p = "cloudflare" -> GenerateWorkerName
      [] p = "gcp"        -> { Name("omniprox-", 0, UrlHash + k) : k \in 1..NNames }
      [] OTHER            -> AlibabaGroups

\* _get_last_created_proxy_url after a successful creation: the base class
\* returns None, GCP returns _last_created_url, Cloudflare syncs and may fail
LastCreatedProxyUrl(p) ==
    CASE p = "cloudflare" -> BOOLEAN
      [] p = "gcp"        -> {TRUE}
      [] OTHER            -> {FALSE}

\* proxytest() up to the creation loop
ProxytestEnter ==
    /\ provider # "azure" /\ pc = "idle" /\ test.pc = "idle"
    /\ test' = [TestInit EXCEPT !.pc = "create", !.remote0 = remote]
    /\ UNCHANGED <<provider, storeWritable, Invocation, remote, store>>

\* one pass of "for i in range(test_count)"
ProxytestCreate ==
    /\ test.pc = "create" /\ test.i < test_count
    /\ \E result \in BOOLEAN, n \in TestProxies(provider),
          proxy_url \in LastCreatedProxyUrl(provider) :
         /\ remote' = IF result THEN remote \cup {n} ELSE remote
         /\ store' = IF result /\ provider = "cloudflare" THEN SaveEndpoint(n) ELSE store
         /\ test' = [test EXCEPT
                       !.i = @ + 1,
                       !.created_proxies =
                           IF result /\ proxy_url THEN Append(@, n) ELSE @]
    /\ UNCHANGED <<provider, storeWritable, Invocation>>

\* the creation loop is over: unique_ips = set()
ProxytestCreated ==
    /\ test.pc = "create" /\ test.i = test_count
    /\ test' = [test EXCEPT !.pc = "probe", !.i = 0]
    /\ UNCHANGED <<provider, storeWritable, Invocation, remote, store>>

\* one pass of "for i, proxy_url in enumerate(created_proxies)"
ProxytestProbe ==
    /\ test.pc = "probe" /\ test.i < Len(test.created_proxies)
    /\ \E response \in ProbeOutcomes :
         test' = [test EXCEPT
                    !.i = @ + 1,
                    !.requests = @ + 1,
                    !.ok200 = IF response.status = 200 THEN @ + 1 ELSE @,
                    !.unique_ips =
                        IF response.status = 200 THEN @ \cup {response.ip} ELSE @]
    /\ UNCHANGED <<provider, storeWritable, Invocation, remote, store>>

\* The three-way answer of the results summary.
Verdict(unique_ips) ==
    IF Cardinality(unique_ips) > 1 THEN "rotation"
    ELSE IF Cardinality(unique_ips) = 1 THEN "no_rotation"
    ELSE "failed"

\* "Step 3: Results Summary"
ProxytestReport ==
    /\ test.pc = "probe" /\ test.i = Len(test.created_proxies)
    /\ test' = [test EXCEPT
                  !.pc = "choice",
                  !.printed = [proxies    |-> Len(test.created_proxies),
                               successful |-> Cardinality(test.unique_ips),
                               unique     |-> Cardinality(test.unique_ips)],
                  !.verdict = Verdict(test.unique_ips)]
    /\ UNCHANGED <<provider, storeWritable, Invocation, remote, store>>

\* "Cleanup test proxies? (y/n)": 'y' runs self.cleanup(), which asks for its
\* own confirmation and deletes what the provider's listing returns; then
\* return len(unique_ips) > 0
ProxytestCleanupChoice ==
    /\ test.pc = "choice"
    /\ \E cleanup_choice \in {"y", "n", "eof"}, confirmed \in BOOLEAN :
       \E gone \in SUBSET { n \in remote : ToolOwned(n) } :
         LET runs == cleanup_choice = "y" /\ confirmed
         IN  /\ cleanup_choice # "y" => gone = {} /\ ~confirmed
             /\ ~confirmed => gone = {}
             /\ remote' = remote \ gone
             /\ store' = IF runs /\ provider = "cloudflare"
                         THEN SaveAllEndpoints(<<>>) ELSE store
             /\ test' = [test EXCEPT
                           !.pc = "done",
                           !.cleaned = runs,
                           !.ret = Cardinality(test.unique_ips) > 0]
    /\ UNCHANGED <<provider, storeWritable, Invocation>>

\* AzureProvider.proxytest: with no pool it creates one of three and, if that
\* succeeded, runs the rotation client in a subprocess and prints its output;
\* with a pool it runs the client against it.  It returns True in every case.
AzureProxytest ==
    /\ provider = "azure" /\ pc = "idle" /\ test.pc = "idle"
    /\ \E created \in BOOLEAN, pool \in PossibleStores("azure"),
          seen \in SUBSET Identifiers, cleanup \in {"yes", "no"}, confirmed \in BOOLEAN :
       \E gone \in SUBSET { n \in remote \cup Range(pool) : TaggedOmniprox(n) } :
         LET container_pool == load_profile(provider)
             fresh == container_pool = <<>> /\ created
             tested == container_pool # <<>> \/ created
             runs == cleanup = "yes" /\ confirmed
         IN  /\ fresh <=> pool # <<>>
             /\ ~tested => seen = {}
             /\ ~fresh => cleanup = "no"
             /\ cleanup = "no" => ~confirmed
             /\ ~runs => gone = {}
             /\ remote' = (remote \cup Range(pool)) \ gone
             /\ store' = IF runs THEN SavePoolConfig(<<>>)
                         ELSE IF fresh THEN SavePoolConfig(pool) ELSE store
             /\ test' = [TestInit EXCEPT
                           !.pc = "done",
                           !.remote0 = remote,
                           !.unique_ips = seen,
                           !.cleaned = runs,
                           !.ret = TRUE]
    /\ UNCHANGED <<provider, storeWritable, Invocation>>

\* The next proxytest invocation.
ProxytestAgain ==
    /\ test.pc = "done"
    /\ test' = TestInit
    /\ UNCHANGED <<provider, storeWritable, Invocation, remote, store>>

NextTest ==
    \/ ProxytestEnter
    \/ ProxytestCreate
    \/ ProxytestCreated
    \/ ProxytestProbe
    \/ ProxytestReport
    \/ ProxytestCleanupChoice
    \/ AzureProxytest
    \/ ProxytestAgain

SpecTest == Init /\ [][NextTest]_vars

\* C11: a finished rotation test has classified the run by the number u of
\* distinct identifiers seen (u > 1 rotation, u = 1 no rotation, u = 0 total
\* failure) and has returned success exactly when u > 0.
C11_ClassifiedByUniqueCount ==
    test.pc = "done"
        => /\ test.verdict = Verdict(test.unique_ips)
           /\ test.ret <=> test.unique_ips # {}

\* C12: the printed summary carries the number of probes issued, the number
\* of probes answered with HTTP 200 and the number of distinct identifiers.
C12_ThreeSeparateCounts ==
    test.pc \in {"choice", "done"} /\ provider # "azure"
        => /\ test.printed.proxies = test.requests
           /\ test.printed.successful = test.ok200
           /\ test.printed.unique = Cardinality(test.unique_ips)
           /\ test.printed.unique <= test.printed.successful
           /\ test.printed.successful <= test.printed.proxies


\* C13: a create without --url or with a count outside 1..10, and a delete
\* without --api_id, has failed and has made no remote request.
C13_ValidationBeforeNetwork ==
    ( /\ pc = "done"
      /\ \/ /\ arg.command = "create"
            /\ arg.url = "" \/ arg.number < 1 \/ arg.number > BatchLimit
         \/ arg.command = "delete" /\ arg.api_id = NoName )
        => ~loc.ret /\ ~hist.networked


(***************************************************************************)
(* Ctrl-C while a command runs.                                            *)
(***************************************************************************)
\* KeyboardInterrupt is no Exception: no handler of the providers or of
\* BaseOmniProx.execute catches it, main() prints "Operation cancelled by
\* user" and exits with status 1.
Interrupt ==
    /\ pc \notin {"idle", "done", "killed", "interrupted"}
    /\ pc' = "interrupted"
    /\ loc' = Return(loc, FALSE)
    /\ hist' = [hist EXCEPT !.killedAt = pc]
    /\ UNCHANGED <<Fixed, remote, store, arg>>

NextInterrupt == Next \/ Interrupt

SpecInterrupt == Init /\ [][NextInterrupt]_vars

\* C14: a batch create interrupted by the user at the head of the loop, after
\* k successful creations, has the k endpoints in the persisted fleet and has
\* printed the report of what succeeded and failed.
C14_InterruptedBatchReported ==
    ( /\ pc = "interrupted" /\ hist.killedAt = "loop" /\ arg.command = "create"
      /\ KeepsFleetStore
      /\ Len(loc.created) > 0 )
    => /\ Range(loc.created) \subseteq Range(store)
       /\ loc.summary


(***************************************************************************)
(* Writing the store file: _save_all_endpoints, save_pool_config.          *)
(***************************************************************************)
\* the caller has built the list to save
SaveBegin ==
    /\ KeepsFleetStore /\ pc = "idle" /\ save.pc \in {"idle", "closed"}
    /\ \E endpoints \in PossibleStores(provider) :
         save' = [pc |-> "open", old |-> store, new |-> endpoints, written |-> 0]
    /\ UNCHANGED <<provider, storeWritable, remote, store, pc, arg, loc, hist, rot, run, del,
                   test, profile, driver>>

\* open(path, 'w'): the file is truncated in place; an empty file loads as no
\* endpoints (_load_endpoints swallows the JSONDecodeError)
SaveOpen ==
    /\ save.pc = "open" /\ storeWritable
    /\ save' = [save EXCEPT !.pc = "write"]
    /\ store' = <<>>
    /\ UNCHANGED <<provider, storeWritable, remote, pc, arg, loc, hist, rot, run, del,
                   test, profile, driver>>

\* json.dump / config.write: one more entry reaches the file, which is not
\* yet a complete document
SaveWrite ==
    /\ save.pc = "write" /\ save.written < Len(save.new)
    /\ save' = [save EXCEPT !.written = @ + 1]
    /\ UNCHANGED <<provider, storeWritable, remote, store, pc, arg, loc, hist, rot, run, del,
                   test, profile, driver>>

\* leaving the with block: the document is complete
SaveClose ==
    /\ save.pc = "write" /\ save.written = Len(save.new)
    /\ save' = [save EXCEPT !.pc = "closed"]
    /\ store' = save.new
    /\ UNCHANGED <<provider, storeWritable, remote, pc, arg, loc, hist, rot, run, del,
                   test, profile, driver>>

\* the process is killed inside the with block
SaveKill ==
    /\ save.pc = "write"
    /\ save' = [save EXCEPT !.pc = "killed"]
    /\ UNCHANGED <<provider, storeWritable, remote, store, pc, arg, loc, hist, rot, run, del,
                   test, profile, driver>>

NextSave ==
    \/ SaveBegin
    \/ SaveOpen
    \/ SaveWrite
    \/ SaveClose
    \/ SaveKill

SpecSave == Init /\ [][NextSave]_vars

\* C15: when the process is killed while the store is being saved, the store
\* holds the complete previous content or the complete new content.
C15_SaveIsAtomic ==
    save.pc = "killed" => store = save.old \/ store = save.new


(***************************************************************************)
(* The commands with a store file that cannot be written.                  *)
(***************************************************************************)
InitFault ==
    /\ provider \in Providers
    /\ remote \in SUBSET AccountNames(provider)
    /\ store \in PossibleStores(provider)
    /\ storeWritable = FALSE
    /\ pc = "idle"
    /\ arg = [command |-> "none", number |-> 1, api_id |-> NoName,
              url |-> "", tty |-> FALSE]
    /\ loc = LocInit
    /\ hist = HistInit
    /\ test = TestInit
    /\ save = SaveInit
    /\ profile = ProfileInit
    /\ driver = DriverInit
    /\ rot = RotInit
    /\ run = RunInit
    /\ del = DelInit

SpecFault == InitFault /\ [][Next]_vars

\* What create has printed about the resources it made: Cloudflare prints
\* each worker as it appends it to created_workers, Azure prints the pool in
\* the statistics after save_pool_config().
CreatedReported ==
    IF provider = "azure" THEN loc.summary
    ELSE Range(hist.made) \subseteq Range(loc.created)

\* C16: a create that made endpoints remotely while the fleet store could not
\* be written ends as failed and has still reported the endpoints it made.
C16_StoreFailureIsReported ==
    ( /\ CreateDone /\ KeepsFleetStore
      /\ ~storeWritable
      /\ hist.made # <<>> )
    => ~loc.ret /\ CreatedReported


\* C17: after an Azure create that ran to its end, every container group the
\* batch deployed, with or without a public address, is in the persisted
\* fleet.
C17_EveryDeployedGroupTracked ==
    ( /\ CreateDone /\ provider = "azure"
      /\ loc.i > loc.num_proxies )
    => Range(hist.made) \subseteq Range(store)


\* C18: no create reports as a created proxy a resource that an earlier
\* create left half provisioned (and reported as a failure).
C18_PartialNeverReportedCreated ==
    ( CreateDone /\ provider \in {"gcp", "alibaba"} )
        => Range(loc.created) \cap hist.partial = {}


\* Resources of the account that no command of this tool created.
Foreign == ForeignWorkers \cup ForeignContainers \cup ForeignApis \cup ForeignGroups

\* C19: list and cleanup neither return nor delete a resource that this tool
\* did not create.
C19_ForeignResourcesUntouched ==
    arg.command \in {"list", "cleanup"}
        => /\ Range(loc.endpoints) \cap Foreign = {}
           /\ (hist.remote0 \cap Foreign) \subseteq remote


(***************************************************************************)
(* Construction of the provider object for an existing profile.            *)
(***************************************************************************)
\* Sections profiles.ini can hold: the account, subscription or project id,
\* the region ("default" is the provider's built-in one) and use_cli.
Profiles ==
    [id : {"acct1", "acct2"}, region : {"default", "west", "east"}, use_cli : BOOLEAN]

\* --region / --location on the command line, NoValue when absent
RegionArgs == {NoValue, "west", "east"}

InitProfile ==
    /\ provider \in Providers
    /\ remote = {}
    /\ store = <<>>
    /\ storeWritable = TRUE
    /\ pc = "idle"
    /\ arg = [command |-> "none", number |-> 1, api_id |-> NoName,
              url |-> "", tty |-> FALSE]
    /\ loc = LocInit
    /\ hist = HistInit
    /\ test = TestInit
    /\ save = SaveInit
    /\ profile \in Profiles
    /\ driver = DriverInit
    /\ rot = RotInit
    /\ run = RunInit
    /\ del = DelInit

\* load_profile: "if hasattr(self.args, 'region') and self.args.region"
LoadRegion(region) == IF region # NoValue THEN region ELSE profile.region

\* CloudflareProvider.__init__: the attributes are set to None first, then
\* BaseOmniProx.__init__ calls load_profile (no region, no use_cli)
CloudflareConstruct ==
    /\ provider = "cloudflare" /\ driver.pc = "none"
    /\ \E region \in RegionArgs :
         driver' = [DriverInit EXCEPT !.pc = "constructed", !.override = region,
                                      !.loaded = profile,
                                      !.id = profile.id]
    /\ UNCHANGED <<provider, remote, store, storeWritable, pc, arg, loc, hist, rot, run, del,
                   test, save, profile>>

\* AzureProvider.__init__: defaults first, then load_profile
AzureConstruct ==
    /\ provider = "azure" /\ driver.pc = "none"
    /\ \E region \in RegionArgs :
         driver' = [DriverInit EXCEPT !.pc = "constructed", !.override = region,
                                      !.loaded = profile,
                                      !.id = profile.id,
                                      !.region = LoadRegion(region),
                                      !.use_cli = profile.use_cli]
    /\ UNCHANGED <<provider, remote, store, storeWritable, pc, arg, loc, hist, rot, run, del,
                   test, save, profile>>

\* GCPProvider.__init__: super().__init__() runs load_profile first, then the
\* constructor assigns project_id = None, region = 'us-central1',
\* use_cli = False
GcpConstruct ==
    /\ provider = "gcp" /\ driver.pc = "none"
    /\ \E region \in RegionArgs :
         LET loaded == [DriverInit EXCEPT !.pc = "constructed", !.override = region,
                                      !.loaded = profile,
                                          !.id = profile.id,
                                          !.region = LoadRegion(region),
                                          !.use_cli = profile.use_cli]
         IN  driver' = [loaded EXCEPT !.id = NoValue,
                                      !.region = "default",
                                      !.use_cli = FALSE]
    /\ UNCHANGED <<provider, remote, store, storeWritable, pc, arg, loc, hist, rot, run, del,
                   test, save, profile>>

\* AlibabaProvider.__init__: defaults first, then load_profile (no use_cli)
AlibabaConstruct ==
    /\ provider = "alibaba" /\ driver.pc = "none"
    /\ \E region \in RegionArgs :
         driver' = [DriverInit EXCEPT !.pc = "constructed", !.override = region,
                                      !.loaded = profile,
                                      !.id = profile.id,
                                      !.region = LoadRegion(region)]
    /\ UNCHANGED <<provider, remote, store, storeWritable, pc, arg, loc, hist, rot, run, del,
                   test, save, profile>>

\* AzureProvider.save_pool_config, called by create, delete and cleanup: the
\* section is rewritten from the attributes of the object
AzureSavePoolConfig ==
    /\ provider = "azure" /\ driver.pc = "constructed"
    /\ profile' = [profile EXCEPT !.id = driver.id,
                                  !.region = driver.region,
                                  !.use_cli = driver.use_cli]
    /\ driver' = [driver EXCEPT !.pc = "ran"]
    /\ UNCHANGED <<provider, remote, store, storeWritable, pc, arg, loc, hist, rot, run, del,
                   test, save>>

\* GCPProvider.init_provider, called first by every command: without a
\* project_id, or with one that gcloud does not find ACTIVE, a project is
\* looked up or created and _update_profile_project writes it to the section
GcpInitProvider ==
    /\ provider = "gcp" /\ driver.pc = "constructed"
    /\ \E exists \in BOOLEAN, project_id \in {"acct1", "acct2", NoValue} :
         IF driver.id # NoValue /\ exists
         THEN /\ driver' = [driver EXCEPT !.pc = "ran"]
              /\ profile' = profile
         ELSE /\ driver' = [driver EXCEPT !.pc = "ran", !.id = project_id]
              /\ profile' = IF project_id # NoValue
                            THEN [profile EXCEPT !.id = project_id]
                            ELSE profile
    /\ UNCHANGED <<provider, remote, store, storeWritable, pc, arg, loc, hist, rot, run, del,
                   test, save>>

\* sys.exit: the object is gone, the next command constructs a new one
Exit ==
    /\ driver.pc \in {"constructed", "ran"}
    /\ driver' = DriverInit
    /\ UNCHANGED <<provider, remote, store, storeWritable, pc, arg, loc, hist, rot, run, del,
                   test, save, profile>>

NextProfile ==
    \/ CloudflareConstruct
    \/ AzureConstruct
    \/ GcpConstruct
    \/ AlibabaConstruct
    \/ AzureSavePoolConfig
    \/ GcpInitProvider
    \/ Exit

SpecProfile == InitProfile /\ [][NextProfile]_vars

\* The configuration attributes each provider keeps in its profile.
ConfigFields(p) ==
    CASE p = "cloudflare" -> {"id"}
      [] p = "alibaba"    -> {"id", "region"}
      [] OTHER            -> {"id", "region", "use_cli"}

\* C20: the object constructed for an existing profile has every
\* configuration attribute equal to the stored value, the region being the
\* one given on the command line when there is one.
C20_DriverEqualsProfile ==
    driver.pc = "constructed"
        => \A f \in ConfigFields(provider) :
             driver[f] = IF f = "region" /\ driver.override # NoValue
                         THEN driver.override ELSE profile[f]


\* C21: a command leaves the account id, the region and the CLI-auth flag of
\* the stored profile as they were when the command loaded it.
C21_ProfileFieldsUnchanged ==
    driver.pc = "ran" => profile = driver.loaded


\* C22: a create asked for N >= 1 instances that got as far as its first
\* creation request has issued exactly N of them when it returns.
C22_OneAttemptPerInstance ==
    ( CreateDone /\ arg.number >= 1 /\ hist.attempts > 0 )
        => hist.attempts = arg.number


\* C23: whatever commands have run, no two endpoints of the persisted fleet
\* have the same id.
C23_StoreIdsUnique == NoDuplicates(store)

\* a create has just recorded a worker whose generated name was already in
\* the store, which holds other endpoints as well
C23_NameCollisionSaved ==
    /\ CreateDone /\ provider = "cloudflare"
    /\ Range(loc.created) \cap Range(hist.store0) # {}
    /\ Len(store) >= 2


(***************************************************************************)
(* The rotation client (class RotatingProxy of the generated script).      *)
(***************************************************************************)
\* CONTAINER_POOL of the script: the pool of one create, in creation order
\* (self.container_pool.append in the loop over i)
RotPools ==
    UNION { { s \in [1..n -> { ContainerGroupName(k, x) : k \in 1..n, x \in 1..NNames }] :
                \A k \in 1..n : s[k].i = k } : n \in 0..MaxPool }

InitRotate ==
    /\ provider = "azure"
    /\ remote = {}
    /\ store = <<>>
    /\ storeWritable = TRUE
    /\ pc = "idle"
    /\ arg = [command |-> "none", number |-> 1, api_id |-> NoName,
              url |-> "", tty |-> FALSE]
    /\ loc = LocInit
    /\ hist = HistInit
    /\ test = TestInit
    /\ save = SaveInit
    /\ profile = ProfileInit
    /\ driver = DriverInit
    /\ rot \in { [RotInit EXCEPT !.pool = s] : s \in RotPools }
    /\ run = RunInit
    /\ del = DelInit

\* self.current_index = (self.current_index + 1) % len(self.pool)
NextIndexSkipsOne(current_index, n) == (current_index + 2) % n

NextIndex(current_index, n) == (current_index + 1) % n

\* get_next_proxy
GetNextProxy ==
    /\ rot.calls < MaxCalls
    /\ IF rot.pool = <<>>
       THEN rot' = [rot EXCEPT !.calls = @ + 1,
                               !.proxy = NoName,
                               !.served = Append(@, NoName)]
       ELSE LET proxy == rot.pool[rot.current_index + 1]
            IN  rot' = [rot EXCEPT
                          !.calls = @ + 1,
                          !.proxy = proxy,
                          !.served = Append(@, proxy),
                          !.current_index = NextIndex(rot.current_index, Len(rot.pool))]
    /\ UNCHANGED <<provider, remote, store, storeWritable, pc, arg, loc, hist,
                   test, save, profile, driver, run, del>>

NextRotate == GetNextProxy

SpecRotate == InitRotate /\ [][NextRotate]_vars

\* C24: with a pool of n > 0 endpoints the k-th call of get_next_proxy has
\* returned the endpoint at position (k-1) mod n, any n consecutive calls
\* have returned every endpoint of the pool, and the index is within 0..n-1;
\* with an empty pool every call has returned no proxy.
C24_RoundRobinInCreationOrder ==
    LET n == Len(rot.pool) IN
    IF n = 0
    THEN \A k \in 1..rot.calls : rot.served[k] = NoName
    ELSE /\ rot.current_index \in 0..(n - 1)
         /\ \A k \in 1..rot.calls : rot.served[k] = rot.pool[((k - 1) % n) + 1]
         /\ \A j \in 1..rot.calls :
              j + n - 1 <= rot.calls
                => { rot.served[k] : k \in j..(j + n - 1) } = Range(rot.pool)

\* the rotation has wrapped around a pool of several endpoints
C24_WrappedAround ==
    /\ Len(rot.pool) >= 2
    /\ rot.calls > Len(rot.pool)
    /\ rot.proxy = rot.pool[1]


\* C25: after a create, every endpoint that was in the persisted fleet when
\* the create started and still exists in the account is still in the
\* persisted fleet.
C25_CreateKeepsEarlierEndpoints ==
    ( CreateDone /\ KeepsFleetStore )
        => \A n \in Range(hist.store0) : n \in remote => n \in Range(store)


\* A Cloudflare sync whose listing was not obtained (no subdomain, or the GET
\* failed with a request error) has just returned: in list, and in cleanup
\* before its first deletion.
SyncFellBack ==
    /\ provider = "cloudflare" /\ hist.fault
    /\ \/ pc = "done" /\ arg.command = "list" /\ loc.ret
       \/ pc = "delete" /\ arg.command = "cleanup" /\ loc.i = 0 /\ hist.deletes = 0

\* C26: a sync that could not obtain the remote listing has returned the
\* locally persisted endpoints and has left the local store as it was.
C26_FailedSyncFallsBackToStore ==
    SyncFellBack => loc.endpoints = hist.store0 /\ store = hist.store0

\* the fallback returned endpoints that are not what the account holds
C26_FellBackToStaleStore ==
    /\ SyncFellBack
    /\ hist.store0 # <<>>
    /\ Range(hist.store0) # { n \in remote : StartsWithOmniproxPrefix(n) }


\* C27: after a rotation test whose cleanup was chosen and ran, every proxy
\* of the provider that existed before the test still exists.
C27_TestCleanupSparesEarlierProxies ==
    ( test.pc = "done" /\ test.cleaned )
        => { n \in test.remote0 : ToolOwned(n) } \subseteq remote


\* ------------------------------------------------------------------------
\* GCPProvider.delete, call by call.
\* ------------------------------------------------------------------------

GatewayIds == {"gw1", "gw2"}

\* The configs of the API of --api_id.
ApiConfigs == {"cfg1", "cfg2"}

\* gateway.api_config of a gateway: a config of the API, a config of an API
\* whose id begins with --api_id ("sibling"), or a config of any other API.
GatewayConfigs == ApiConfigs \cup {"sibling", "other"}

\* `api_name in gateway.api_config`: a substring test on the config's path.
NameInConfig(api_config) == api_config \in ApiConfigs \cup {"sibling"}

\* The gateways that serve a config of the API, the ones outside
\* self.region included.
Bound(gateways) == { g \in gateways : g.api_config \in ApiConfigs }

\* The service refuses to delete a config that a gateway still serves.
InUse(d, config) == \E g \in d.gateways : g.api_config = config

InitDelete ==
    /\ provider = "gcp"
    /\ remote = {}
    /\ store = <<>>
    /\ storeWritable = TRUE
    /\ pc = "idle"
    /\ arg = [command |-> "none", number |-> 1, api_id |-> NoName,
              url |-> "", tty |-> FALSE]
    /\ loc = LocInit
    /\ hist = HistInit
    /\ test = TestInit
    /\ save = SaveInit
    /\ profile = ProfileInit
    /\ driver = DriverInit
    /\ rot = RotInit
    /\ run = RunInit
    /\ \E exists \in BOOLEAN, configs \in SUBSET ApiConfigs,
          present \in SUBSET GatewayIds :
       \E here \in [present -> BOOLEAN], api_config \in [present -> GatewayConfigs] :
         LET gateways == { [id |-> g, here |-> here[g], api_config |-> api_config[g]] :
                           g \in present }
         IN  /\ ~exists => configs = {}
             /\ \A g \in Bound(gateways) : g.api_config \in configs
             /\ del = [DelInit EXCEPT !.api0 = exists, !.api = exists,
                                      !.gateways = gateways, !.configs = configs]

\* A handler that swallowed the exception and carried on.
ExceptHandlerCarriesOn(d) == d

\* except Exception: log, print, return False.
ExceptHandler(d) == [d EXCEPT !.pc = "done", !.ret = "False"]

DeleteEnter ==
    /\ del.pc = "idle"
    /\ \E init_provider \in BOOLEAN, api_id \in BOOLEAN :
         del' = IF init_provider /\ api_id
                THEN [del EXCEPT !.pc = "list_gateways"]
                ELSE [del EXCEPT !.pc = "done", !.ret = "False"]
    /\ UNCHANGED <<provider, remote, store, storeWritable, pc, arg, loc, hist,
                   test, save, profile, driver, rot, run>>

DeleteListGateways ==
    /\ del.pc = "list_gateways"
    /\ \E outcome \in CallOutcomes :
         del' = IF outcome = "ok"
                THEN [del EXCEPT !.pc = "gateways",
                                 !.todo_gateways =
                                     { g \in del.gateways :
                                         g.here /\ NameInConfig(g.api_config) }]
                ELSE ExceptHandler(del)
    /\ UNCHANGED <<provider, remote, store, storeWritable, pc, arg, loc, hist,
                   test, save, profile, driver, rot, run>>

\* One pass of the gateway loop; an operation that raised (a timeout of
\* operation.result included) may or may not have deleted the gateway.
DeleteGateway ==
    /\ del.pc = "gateways" /\ del.todo_gateways # {}
    /\ \E g \in del.todo_gateways, outcome \in CallOutcomes, gone \in BOOLEAN :
         LET after == [del EXCEPT !.gateways = IF gone THEN @ \ {g} ELSE @,
                                  !.todo_gateways = @ \ {g}]
         IN  /\ outcome = "ok" => gone
             /\ del' = IF outcome = "ok"
                       THEN [after EXCEPT !.gone_gateways = @ \cup {g.id}]
                       ELSE ExceptHandler([after EXCEPT !.todo_gateways = del.todo_gateways,
                                                        !.failed = TRUE])
    /\ UNCHANGED <<provider, remote, store, storeWritable, pc, arg, loc, hist,
                   test, save, profile, driver, rot, run>>

\* list_api_configs(parent=api_name): NotFound when the API does not exist.
DeleteListConfigs ==
    /\ del.pc = "gateways" /\ del.todo_gateways = {}
    /\ \E outcome \in CallOutcomes :
         /\ ~del.api => outcome = "error"
         /\ del' = IF outcome = "ok"
                   THEN [del EXCEPT !.pc = "configs", !.todo_configs = del.configs]
                   ELSE ExceptHandler(del)
    /\ UNCHANGED <<provider, remote, store, storeWritable, pc, arg, loc, hist,
                   test, save, profile, driver, rot, run>>

DeleteConfig ==
    /\ del.pc = "configs" /\ del.todo_configs # {}
    /\ \E config \in del.todo_configs, outcome \in CallOutcomes, gone \in BOOLEAN :
         LET after == [del EXCEPT !.configs = IF gone THEN @ \ {config} ELSE @,
                                  !.todo_configs = @ \ {config}]
         IN  /\ outcome = "ok" => gone
             /\ InUse(del, config) => outcome = "error" /\ ~gone
             /\ del' = IF outcome = "ok"
                       THEN [after EXCEPT !.gone_configs = @ \cup {config}]
                       ELSE ExceptHandler([after EXCEPT !.todo_configs = del.todo_configs,
                                                        !.failed = TRUE])
    /\ UNCHANGED <<provider, remote, store, storeWritable, pc, arg, loc, hist,
                   test, save, profile, driver, rot, run>>

\* delete_api after both loops; the service refuses an API that has configs.
DeleteApi ==
    /\ del.pc = "configs" /\ del.todo_configs = {}
    /\ \E outcome \in CallOutcomes, gone \in BOOLEAN :
         /\ outcome = "ok" => gone
         /\ del.configs # {} => outcome = "error" /\ ~gone
         /\ del' = IF outcome = "ok"
                   THEN [del EXCEPT !.pc = "done", !.api = FALSE, !.ret = "True"]
                   ELSE ExceptHandler([del EXCEPT !.api = IF gone THEN FALSE ELSE @])
    /\ UNCHANGED <<provider, remote, store, storeWritable, pc, arg, loc, hist,
                   test, save, profile, driver, rot, run>>

NextDelete ==
    \/ DeleteEnter
    \/ DeleteListGateways
    \/ DeleteGateway
    \/ DeleteListConfigs
    \/ DeleteConfig
    \/ DeleteApi

SpecDelete == InitDelete /\ [][NextDelete]_vars

C29_RepeatedCreateIsIdempotent ==
    /\ ( /\ provider = "gcp" /\ arg.command = "create" /\ pc = "done"
         /\ loc.summary
         /\ \A k \in 0..(loc.num_proxies - 1) :
              generate_api_id(IF loc.num_proxies > 1 THEN k + 1 ELSE 0) \in hist.remote0 )
       => ( /\ remote = hist.remote0
            /\ Len(loc.created) = loc.num_proxies
            /\ loc.failed_count = 0 )
    /\ \A j, k \in 1..MaxNumber : j # k => generate_api_id(j) # generate_api_id(k)


\* ------------------------------------------------------------------------
\* execute_all_providers (--all).
\* ------------------------------------------------------------------------

providers == <<"cloudflare", "gcp", "azure", "alibaba">>

ProfileArgs == {"default", "work"}

InitAll ==
    /\ provider = "cloudflare"
    /\ remote = {}
    /\ store = <<>>
    /\ storeWritable = TRUE
    /\ pc = "idle"
    /\ arg = [command |-> "none", number |-> 1, api_id |-> NoName,
              url |-> "", tty |-> FALSE]
    /\ loc = LocInit
    /\ hist = HistInit
    /\ test = TestInit
    /\ save = SaveInit
    /\ profile = ProfileInit
    /\ driver = DriverInit
    /\ rot = RotInit
    /\ del = DelInit
    /\ \E sections \in SUBSET (Range(providers) \X ProfileArgs), requested \in ProfileArgs :
         run = [RunInit EXCEPT !.sections = sections, !.sections0 = sections,
                               !.profile = requested]

\* "[SKIP]": neither provider:<--profile> nor provider:default is a section.
AllSkip ==
    /\ run.pc = "loop" /\ run.i <= Len(providers)
    /\ LET p == providers[run.i] IN
         /\ <<p, run.profile>> \notin run.sections
         /\ <<p, "default">> \notin run.sections
         /\ run' = [run EXCEPT !.i = @ + 1, !.skipped = @ \cup {p}]
    /\ UNCHANGED <<provider, remote, store, storeWritable, pc, arg, loc, hist,
                   test, save, profile, driver, rot, del>>

\* One pass of the loop for a provider that has a section. provider_args is a
\* copy of args with provider and all replaced, so the provider object is
\* constructed with --profile: BaseOmniProx.__init__ loads that section when
\* it exists and calls create_profile otherwise. create_profile of Cloudflare,
\* GCP and Alibaba prompts (EOFError when nothing answers) and saves the new
\* section; Azure's adds the section to the parser, which save_pool_config
\* writes when the command reaches it.
AllExecute ==
    /\ run.pc = "loop" /\ run.i <= Len(providers)
    /\ LET p == providers[run.i]
           profile_name == IF <<p, run.profile>> \in run.sections
                           THEN <<p, run.profile>> ELSE <<p, "default">>
           constructed == <<p, run.profile>>
       IN
       /\ profile_name \in run.sections
       /\ \E available \in BOOLEAN, answered \in BOOLEAN, written \in BOOLEAN,
             outcome \in {"True", "False", "raised"} :
            LET creates == constructed \notin run.sections
                raises == creates /\ p # "azure" /\ ~answered
                saved == /\ creates
                         /\ IF p = "azure" THEN written ELSE answered
            IN  /\ ~creates => answered /\ ~written
                /\ p # "azure" => ~written
                /\ p = "azure" => answered
                /\ ~available => answered /\ ~written /\ outcome = "False"
                /\ raises => outcome = "raised"
                /\ run' = IF ~available
                          THEN [run EXCEPT !.i = @ + 1, !.failed = @ + 1]
                          ELSE [run EXCEPT
                                  !.i = @ + 1,
                                  !.sections = IF saved THEN @ \cup {constructed} ELSE @,
                                  !.used = IF raises THEN @
                                           ELSE Append(@, [provider |-> p,
                                                           found |-> profile_name,
                                                           loaded |-> constructed]),
                                  !.successful = IF outcome = "True" THEN @ + 1 ELSE @,
                                  !.failed = IF outcome = "True" THEN @ ELSE @ + 1]
    /\ UNCHANGED <<provider, remote, store, storeWritable, pc, arg, loc, hist,
                   test, save, profile, driver, rot, del>>

AllSummary ==
    /\ run.pc = "loop" /\ run.i > Len(providers)
    /\ run' = [run EXCEPT !.pc = "done",
                          !.ret = IF run.failed = 0 THEN "0" ELSE "1"]
    /\ UNCHANGED <<provider, remote, store, storeWritable, pc, arg, loc, hist,
                   test, save, profile, driver, rot, del>>

NextAll ==
    \/ AllSkip
    \/ AllExecute
    \/ AllSummary

SpecAll == InitAll /\ [][NextAll]_vars

\* C30: with --all every provider executed was constructed with a section
\* that existed when the run started, the section the loop found for it (the
\* default one when the requested one is missing); no section is added; the
\* providers skipped are the ones with no section; and at the end every
\* provider was either skipped or counted as successful or failed.
C30_AllUsesExistingProfiles ==
    /\ \A k \in 1..Len(run.used) :
         /\ run.used[k].loaded \in run.sections0
         /\ run.used[k].loaded = run.used[k].found
    /\ run.sections = run.sections0
    /\ \A p \in run.skipped :
         <<p, run.profile>> \notin run.sections0 /\ <<p, "default">> \notin run.sections0
    /\ run.pc = "done" =>
         run.successful + run.failed + Cardinality(run.skipped) = Len(providers)

====
